---- MODULE Spec2Model ----
(***************************************************************************)
(* Model of the clock deviation utility (deviation_average.c): a ring of   *)
(* deviation samples plus the running aggregates of struct sync, driven by *)
(* more_than_half_reset and more_than_half_do_sync.                        *)
(*                                                                         *)
(* The ring itself (deviation_history_reset / _get_last / _insert) is      *)
(* declared in deviation_history.h, which is not among the sources; it is  *)
(* modelled from the specification's section 4.1.                          *)
(***************************************************************************)
EXTENDS Integers, Sequences, FiniteSets

\* Largest history_size handed to more_than_half_reset in the model.
MaxSize == 4

\* The values history_size ranges over (the precondition is capacity >= 1).
Sizes == 1..MaxSize

\* Deviations fed to more_than_half_do_sync: the samples of the worked
\* example (capacity 4, threshold 10), which mix signs and magnitudes.
Deviations == {-40, 2, 5, 30, 50}

\* Thresholds handed to more_than_half_reset (unsigned long): 10 is the
\* example's threshold, 2 puts the sample 2 and 0 puts the zeroed slots
\* exactly on the boundary of the strict comparison.
Thresholds == {0, 2, 10}

\* The caller's buffer: MaxSize slots of long, addressed from 0.
Slots == 0..(MaxSize - 1)

\* A buffer the caller has zero-filled before handing it over.
ZeroBuffer == [i \in Slots |-> 0]

VARIABLES
    s,              \* struct sync: the ring's bookkeeping and the aggregates
    mem,            \* contents of the caller-owned history buffer
    call,           \* which function returned last: "reset" or "do_sync"
    reset_args,     \* arguments of the last more_than_half_reset
    deviation,      \* argument of the last more_than_half_do_sync
    tail_deviation, \* the local tail_deviation of the last do_sync
    ret,            \* value returned by the last call
    recent,         \* the last `capacity` deviations passed since the reset, oldest first
    t,              \* a second struct sync, always reset over a zeroed buffer
    tmem,           \* the second instance's buffer
    tret,           \* value returned by the second instance's last call
    threads,        \* per caller thread: where it is inside do_sync, and its locals
    overlapped,     \* whether a call has begun while another was in flight
    calls           \* how many calls the caller threads have begun

vars == <<s, mem, call, reset_args, deviation, tail_deviation, ret, recent,
          t, tmem, tret, threads, overlapped, calls>>

\* The variables of the threaded callers, which the whole-call actions
\* leave alone.
racevars == <<threads, overlapped, calls>>

-----------------------------------------------------------------------------
\* labs(): absolute value for long type.
labs(x) == IF x < 0 THEN -x ELSE x

\* C's integer division on long: the quotient is truncated toward zero.
LongDiv(a, b) ==
    LET q == labs(a) \div labs(b)
    IN  IF (a < 0) = (b < 0) THEN q ELSE -q

\* deviation_history_reset: binds storage and capacity, sets the cursor to 0;
\* the storage itself is not touched.
deviation_history_reset(h, addr, history_size) ==
    [h |-> [capacity |-> history_size, cursor |-> 0], mem |-> addr]

\* deviation_history_get_last: the value in the slot the next insertion
\* will overwrite.
deviation_history_get_last(h, m) == m[h.cursor]

\* deviation_history_insert: writes the sample at the cursor, then advances
\* the cursor by one modulo capacity.
deviation_history_insert(h, m, d) ==
    [h   |-> [h EXCEPT !.cursor = (h.cursor + 1) % h.capacity],
     mem |-> [m EXCEPT ![h.cursor] = d]]

\* The absolute value is forgotten: only positive deviations count.
OutOfSyncSigned(x, max_deviation) == x > max_deviation

\* The comparison made inclusive.
OutOfSyncInclusive(x, max_deviation) == labs(x) >= max_deviation

\* The test `labs(x) > s->max_deviation`.
OutOfSync(x, max_deviation) == labs(x) > max_deviation

\* A slip in the aggregate update: the evicted sample is taken out of
\* total_sum but its miss is never taken back.
UpdateAggregatesNoEvict(a, tail, d) ==
    LET b == [a EXCEPT !.total_sum = (@ - tail) + d]
    IN  IF OutOfSync(d, b.max_deviation)
        THEN [b EXCEPT !.misses = @ + 1, !.out_of_sync_sum = @ + d]
        ELSE b

\* Lines 77-93: take the tail's contribution out of the aggregates and put
\* the new deviation's contribution in.
UpdateAggregates(a, tail, d) ==
    LET b == [a EXCEPT !.total_sum = (@ - tail) + d]
        c == IF OutOfSync(tail, b.max_deviation)
             THEN [b EXCEPT !.misses = @ - 1, !.out_of_sync_sum = @ - tail]
             ELSE b
    IN  IF OutOfSync(d, c.max_deviation)
        THEN [c EXCEPT !.misses = @ + 1, !.out_of_sync_sum = @ + d]
        ELSE c

\* Floor division: differs from LongDiv on negative inexact quotients.
FloorAverage(a) ==
    IF a.misses > a.half_history_size
    THEN a.out_of_sync_sum \div a.misses
    ELSE 0

\* "At least half" instead of "more than half".
AtLeastHalfAverage(a) ==
    IF a.misses >= a.half_history_size /\ a.misses > 0
    THEN LongDiv(a.out_of_sync_sum, a.misses)
    ELSE 0

\* The average of the whole window's sum instead of the out-of-sync sum.
WholeWindowAverage(a) ==
    IF a.misses > a.half_history_size
    THEN LongDiv(a.total_sum, a.misses)
    ELSE 0

\* The division is forgotten: the sum itself is returned.
SumNotAverage(a) ==
    IF a.misses > a.half_history_size
    THEN a.out_of_sync_sum
    ELSE 0

\* Lines 101-105: the average of the out-of-sync elements when more than a
\* half of the history is out-of-sync, else 0.
Average(a) ==
    IF a.misses > a.half_history_size
    THEN LongDiv(a.out_of_sync_sum, a.misses)
    ELSE 0

\* The slot is read after it has been overwritten.
do_sync_read_after_insert(a, m, d) ==
    LET ins  == deviation_history_insert(a.deviation_history, m, d)
        tail == ins.mem[a.deviation_history.cursor]
        b    == UpdateAggregates(a, tail, d)
        c    == [b EXCEPT !.deviation_history = ins.h]
    IN  [s |-> c, mem |-> ins.mem, tail_deviation |-> tail, ret |-> Average(c)]

\* Only an out-of-sync deviation is placed in the history.
do_sync_insert_out_of_sync_only(a, m, d) ==
    LET tail == deviation_history_get_last(a.deviation_history, m)
        b    == UpdateAggregates(a, tail, d)
        ins  == IF OutOfSync(d, a.max_deviation)
                THEN deviation_history_insert(a.deviation_history, m, d)
                ELSE [h |-> a.deviation_history, mem |-> m]
        c    == [b EXCEPT !.deviation_history = ins.h]
    IN  [s |-> c, mem |-> ins.mem, tail_deviation |-> tail, ret |-> Average(c)]

\* more_than_half_do_sync(s, deviation): the struct and buffer it leaves,
\* the tail it read and the value it returns.
more_than_half_do_sync(a, m, d) ==
    LET tail == deviation_history_get_last(a.deviation_history, m)
        b    == UpdateAggregates(a, tail, d)
        ins  == deviation_history_insert(b.deviation_history, m, d)
        c    == [b EXCEPT !.deviation_history = ins.h]
    IN  [s |-> c, mem |-> ins.mem, tail_deviation |-> tail, ret |-> Average(c)]

\* A half that is never allowed to be 0.
HalfAtLeastOne(history_size) ==
    IF history_size \div 2 = 0 THEN 1 ELSE history_size \div 2

\* "At least half" written as a smaller half.
HalfMinusOne(history_size) == history_size \div 2 - 1

\* Half rounded up.
HalfRoundedUpMinusOne(history_size) == (history_size - 1) \div 2

\* Line 116: history_size / 2 on unsigned int.
HalfHistorySize(history_size) == history_size \div 2

\* A reset that forgets one of the aggregates.
reset_keeps_out_of_sync_sum(a, addr, history_size, allowed_deviation) ==
    LET hr == deviation_history_reset(a.deviation_history, addr, history_size)
    IN  [s   |-> [deviation_history |-> hr.h,
                  half_history_size |-> HalfHistorySize(history_size),
                  max_deviation     |-> allowed_deviation,
                  misses            |-> 0,
                  out_of_sync_sum   |-> a.out_of_sync_sum,
                  total_sum         |-> 0],
         mem |-> hr.mem,
         ret |-> 0]

\* more_than_half_reset(s, history_addr, history_size, allowed_deviation).
more_than_half_reset(a, addr, history_size, allowed_deviation) ==
    LET hr == deviation_history_reset(a.deviation_history, addr, history_size)
    IN  [s   |-> [deviation_history |-> hr.h,
                  half_history_size |-> HalfHistorySize(history_size),
                  max_deviation     |-> allowed_deviation,
                  misses            |-> 0,
                  out_of_sync_sum   |-> 0,
                  total_sum         |-> 0],
         mem |-> hr.mem,
         ret |-> 0]

\* A struct sync before its first reset; reset overwrites every field.
Unset ==
    [deviation_history |-> [capacity |-> 1, cursor |-> 0],
     half_history_size |-> 0, max_deviation |-> 0,
     misses |-> 0, out_of_sync_sum |-> 0, total_sum |-> 0]

\* Two threads that may call more_than_half_do_sync on the same instance.
Threads == {1, 2}

\* A thread outside any call.
IdleThread == [pc |-> "idle", deviation |-> 0, tail_deviation |-> 0, reg |-> 0, ret |-> 0]

\* The last `n` deviations, oldest first, after one more has been passed.
Push(q, d, n) ==
    LET r == Append(q, d)
    IN  IF Len(r) > n THEN Tail(r) ELSE r

-----------------------------------------------------------------------------
\* The caller zero-fills the buffer and resets the instance over it.
Init ==
    \E n \in Sizes, a \in Thresholds :
        LET r == more_than_half_reset(Unset, ZeroBuffer, n, a)
        IN  /\ s = r.s
            /\ mem = r.mem
            /\ ret = r.ret
            /\ t = r.s
            /\ tmem = r.mem
            /\ tret = r.ret
            /\ call = "reset"
            /\ reset_args = [history_size |-> n, allowed_deviation |-> a]
            /\ deviation = 0
            /\ tail_deviation = 0
            /\ recent = << >>
            /\ threads = [p \in Threads |-> IdleThread]
            /\ overlapped = FALSE
            /\ calls = 0

\* One reference event: more_than_half_do_sync(&s, d), and the same sample
\* to the second instance.
DoSync(d) ==
    LET r  == more_than_half_do_sync(s, mem, d)
        tr == more_than_half_do_sync(t, tmem, d)
    IN  /\ s' = r.s
        /\ mem' = r.mem
        /\ ret' = r.ret
        /\ tail_deviation' = r.tail_deviation
        /\ t' = tr.s
        /\ tmem' = tr.mem
        /\ tret' = tr.ret
        /\ call' = "do_sync"
        /\ deviation' = d
        /\ recent' = Push(recent, d, s.deviation_history.capacity)
        /\ UNCHANGED <<reset_args, racevars>>

\* more_than_half_reset(&s, buffer, n, a) over the buffer as it is now; the
\* second instance is reset with the same arguments over a zeroed buffer.
Reset(n, a) ==
    LET r  == more_than_half_reset(s, mem, n, a)
        tr == more_than_half_reset(t, ZeroBuffer, n, a)
    IN  /\ s' = r.s
        /\ mem' = r.mem
        /\ ret' = r.ret
        /\ t' = tr.s
        /\ tmem' = tr.mem
        /\ tret' = tr.ret
        /\ call' = "reset"
        /\ reset_args' = [history_size |-> n, allowed_deviation |-> a]
        /\ recent' = << >>
        /\ UNCHANGED <<deviation, tail_deviation, racevars>>

\* One reset over a zeroed buffer, then any sequence of do_sync calls.
Next == \E d \in Deviations : DoSync(d)

Spec == Init /\ [][Next]_vars

\* Largest history_size used where resets recur.
MaxResetSize == 3

ResetSizes == 1..MaxResetSize

\* The deviations fed where resets recur: one negative, one between the two
\* thresholds, one above both.
ResetDeviations == {-40, 5, 30}

InitReset ==
    /\ Init
    /\ reset_args.history_size \in ResetSizes

\* Resets may come at any point and rebind the buffer as it then is.
NextReset ==
    \/ \E d \in ResetDeviations : DoSync(d)
    \/ \E n \in ResetSizes, a \in Thresholds : Reset(n, a)

SpecReset == InitReset /\ [][NextReset]_vars

\* more_than_half_reset called again with the same buffer, capacity and
\* threshold, nothing else done to the buffer in between.
ResetAgain == Reset(s.deviation_history.capacity, s.max_deviation)

NextRerun ==
    \/ \E d \in ResetDeviations : DoSync(d)
    \/ ResetAgain

SpecRerun == InitReset /\ [][NextRerun]_vars

\* One reference event seen with opposite signs by two instances: d to the
\* first, -d to the second.
DoSyncNegated(d) ==
    LET r  == more_than_half_do_sync(s, mem, d)
        tr == more_than_half_do_sync(t, tmem, -d)
    IN  /\ s' = r.s
        /\ mem' = r.mem
        /\ ret' = r.ret
        /\ tail_deviation' = r.tail_deviation
        /\ t' = tr.s
        /\ tmem' = tr.mem
        /\ tret' = tr.ret
        /\ call' = "do_sync"
        /\ deviation' = d
        /\ recent' = Push(recent, d, s.deviation_history.capacity)
        /\ UNCHANGED <<reset_args, racevars>>

NextNegated == \E d \in Deviations : DoSyncNegated(d)

\* Two instances reset alike over zeroed buffers, fed d1..dn and -d1..-dn.
SpecNegated == Init /\ [][NextNegated]_vars

\* Most calls the caller threads begin in the threaded runs.
MaxRaceCalls == 2

\* Capacities, thresholds and deviations of the threaded runs.
RaceSizes == {1, 2}
RaceDeviations == {-40, 5}

\* Where a call goes once total_sum is updated (the test of line 86).
AfterTotal(th, a) ==
    IF OutOfSync(th.tail_deviation, a.max_deviation) THEN "load_misses_dec"
    ELSE IF OutOfSync(th.deviation, a.max_deviation) THEN "load_misses_inc"
    ELSE "insert_read_cursor"

\* Where a call goes once the tail is taken out (the test of line 90).
AfterEvict(th, a) ==
    IF OutOfSync(th.deviation, a.max_deviation) THEN "load_misses_inc"
    ELSE "insert_read_cursor"

\* more_than_half_do_sync one memory access at a time: each step is one
\* read or one write of a field of *s or of a buffer slot; `reg` holds the
\* value read until the write that uses it.
do_sync_step(th, a, m) ==
    LET out(pc, reg, a2, m2) ==
            [th |-> [th EXCEPT !.pc = pc, !.reg = reg], s |-> a2, mem |-> m2]
    IN  CASE th.pc = "read_cursor" ->
                 out("read_slot", a.deviation_history.cursor, a, m)
          [] th.pc = "read_slot" ->
                 [th |-> [th EXCEPT !.pc = "load_total_sub",
                                    !.tail_deviation = m[th.reg]],
                  s |-> a, mem |-> m]
          [] th.pc = "load_total_sub" ->
                 out("store_total_sub", a.total_sum, a, m)
          [] th.pc = "store_total_sub" ->
                 out("load_total_add", th.reg,
                     [a EXCEPT !.total_sum = th.reg - th.tail_deviation], m)
          [] th.pc = "load_total_add" ->
                 out("store_total_add", a.total_sum, a, m)
          [] th.pc = "store_total_add" ->
                 out(AfterTotal(th, a), th.reg,
                     [a EXCEPT !.total_sum = th.reg + th.deviation], m)
          [] th.pc = "load_misses_dec" ->
                 out("store_misses_dec", a.misses, a, m)
          [] th.pc = "store_misses_dec" ->
                 out("load_sum_sub", th.reg, [a EXCEPT !.misses = th.reg - 1], m)
          [] th.pc = "load_sum_sub" ->
                 out("store_sum_sub", a.out_of_sync_sum, a, m)
          [] th.pc = "store_sum_sub" ->
                 out(AfterEvict(th, a), th.reg,
                     [a EXCEPT !.out_of_sync_sum = th.reg - th.tail_deviation], m)
          [] th.pc = "load_misses_inc" ->
                 out("store_misses_inc", a.misses, a, m)
          [] th.pc = "store_misses_inc" ->
                 out("load_sum_add", th.reg, [a EXCEPT !.misses = th.reg + 1], m)
          [] th.pc = "load_sum_add" ->
                 out("store_sum_add", a.out_of_sync_sum, a, m)
          [] th.pc = "store_sum_add" ->
                 out("insert_read_cursor", th.reg,
                     [a EXCEPT !.out_of_sync_sum = th.reg + th.deviation], m)
          [] th.pc = "insert_read_cursor" ->
                 out("insert_write_slot", a.deviation_history.cursor, a, m)
          [] th.pc = "insert_write_slot" ->
                 out("insert_write_cursor", th.reg, a,
                     [m EXCEPT ![th.reg] = th.deviation])
          [] th.pc = "insert_write_cursor" ->
                 out("test_misses", th.reg,
                     [a EXCEPT !.deviation_history.cursor =
                                   (th.reg + 1) % a.deviation_history.capacity], m)
          [] th.pc = "test_misses" ->
                 IF a.misses > a.half_history_size
                 THEN out("read_sum", th.reg, a, m)
                 ELSE [th |-> [th EXCEPT !.pc = "idle", !.ret = 0],
                       s |-> a, mem |-> m]
          [] th.pc = "read_sum" ->
                 out("divide", a.out_of_sync_sum, a, m)
          [] th.pc = "divide" ->
                 \* misses is read again for the division; 0 is a fault.
                 IF a.misses = 0
                 THEN out("fault", th.reg, a, m)
                 ELSE [th |-> [th EXCEPT !.pc = "idle",
                                         !.ret = LongDiv(th.reg, a.misses)],
                       s |-> a, mem |-> m]

\* Thread p enters more_than_half_do_sync(&s, d).
Call(p, d) ==
    /\ threads[p].pc = "idle"
    /\ calls < MaxRaceCalls
    /\ calls' = calls + 1
    /\ threads' = [threads EXCEPT ![p] =
                       [IdleThread EXCEPT !.pc = "read_cursor", !.deviation = d]]
    /\ overlapped' = (overlapped \/ \E q \in Threads \ {p} : threads[q].pc # "idle")
    /\ UNCHANGED <<s, mem, call, reset_args, deviation, tail_deviation, ret,
                   recent, t, tmem, tret>>

\* Thread p makes its next memory access.
Step(p) ==
    /\ threads[p].pc \notin {"idle", "fault"}
    /\ LET r == do_sync_step(threads[p], s, mem)
       IN  /\ threads' = [threads EXCEPT ![p] = r.th]
           /\ s' = r.s
           /\ mem' = r.mem
    /\ UNCHANGED <<call, reset_args, deviation, tail_deviation, ret, recent,
                   t, tmem, tret, overlapped, calls>>

InitRace ==
    /\ Init
    /\ reset_args.history_size \in RaceSizes

\* Two threads calling do_sync on one instance with nothing to serialize them.
NextRace ==
    \/ \E p \in Threads, d \in RaceDeviations : Call(p, d)
    \/ \E p \in Threads : Step(p)

SpecRace == InitRace /\ [][NextRace]_vars

-----------------------------------------------------------------------------
\* Shorthands for the fields the properties read.
capacity == s.deviation_history.capacity
cursor == s.deviation_history.cursor

\* The full recomputation over the first n slots of buffer m.
RECURSIVE CountOut(_, _, _)
CountOut(m, n, max) ==
    IF n = 0 THEN 0
    ELSE CountOut(m, n - 1, max) + (IF labs(m[n - 1]) > max THEN 1 ELSE 0)

RECURSIVE SumOut(_, _, _)
SumOut(m, n, max) ==
    IF n = 0 THEN 0
    ELSE SumOut(m, n - 1, max) + (IF labs(m[n - 1]) > max THEN m[n - 1] ELSE 0)

RECURSIVE SumAll(_, _)
SumAll(m, n) == IF n = 0 THEN 0 ELSE SumAll(m, n - 1) + m[n - 1]

\* q is a / b with the quotient truncated toward zero (b > 0).
IsTruncatedQuotient(q, a, b) ==
    /\ labs(q) * b <= labs(a)
    /\ labs(a) < (labs(q) + 1) * b
    /\ (q > 0 => a > 0)
    /\ (q < 0 => a < 0)

\* The values returned, call by call, when seq is fed from struct a and buffer m.
RECURSIVE RunOutputs(_, _, _)
RunOutputs(a, m, seq) ==
    IF seq = << >> THEN << >>
    ELSE LET r == more_than_half_do_sync(a, m, Head(seq))
         IN  <<r.ret>> \o RunOutputs(r.s, r.mem, Tail(seq))

\* The values returned when seq is fed to an instance freshly reset over a
\* zeroed buffer of n slots with threshold max.
FreshOutputs(n, max, seq) ==
    LET r == more_than_half_reset(Unset, [i \in 0..(n - 1) |-> 0], n, max)
    IN  RunOutputs(r.s, r.mem, seq)

-----------------------------------------------------------------------------
\* C1: after a reset over an all-zero buffer and any sequence of do_sync
\* calls, misses is the number of window slots whose absolute value exceeds
\* max_deviation, out_of_sync_sum is the signed sum of exactly those slots,
\* and total_sum is the signed sum of all window slots.
AggregatesMatchRecomputation ==
    /\ s.misses = CountOut(mem, capacity, s.max_deviation)
    /\ s.out_of_sync_sum = SumOut(mem, capacity, s.max_deviation)
    /\ s.total_sum = SumAll(mem, capacity)

\* An out-of-range sample has just been evicted by an in-range one while
\* other out-of-range samples stay in the window.
EvictedAnOutOfSyncSample ==
    /\ call = "do_sync"
    /\ OutOfSync(tail_deviation, s.max_deviation)
    /\ ~OutOfSync(deviation, s.max_deviation)
    /\ s.misses >= 1
    /\ s.out_of_sync_sum < 0

\* C2: whenever, after the insertion, more than floor(capacity/2) window
\* samples are out of range, do_sync returns the sum of exactly those
\* samples divided by their count, truncated toward zero; capacity 4,
\* threshold 10, samples 5, 30, -40, 2, 50 return 0, 0, 0, 0, 13.
CorrectionIsTruncatedAverage ==
    /\ (call = "do_sync"
        /\ CountOut(mem, capacity, s.max_deviation) > capacity \div 2)
       => IsTruncatedQuotient(ret, SumOut(mem, capacity, s.max_deviation),
                              CountOut(mem, capacity, s.max_deviation))
    /\ call = "reset"
       => FreshOutputs(4, 10, <<5, 30, -40, 2, 50>>) = <<0, 0, 0, 0, 13>>

\* The worked example's last call: 50 has evicted 5 and the correction is 13.
ExampleCorrection ==
    /\ call = "do_sync"
    /\ capacity = 4
    /\ s.max_deviation = 10
    /\ recent = <<30, -40, 2, 50>>
    /\ tail_deviation = 5
    /\ ret = 13

\* C3: if, after the insertion, at most floor(capacity/2) window samples are
\* out of range, do_sync returns 0; with capacity 10, five out-of-range
\* samples yield 0 and the sixth yields a correction.
MajorityRule ==
    /\ (call = "do_sync"
        /\ CountOut(mem, capacity, s.max_deviation) <= capacity \div 2)
       => ret = 0
    /\ call = "reset"
       => FreshOutputs(10, 10, <<30, 50, -40, 30, 50, 30>>) = <<0, 0, 0, 0, 0, 25>>

\* Exactly half of an even window is out of range and nothing is returned.
ExactlyHalfOutOfSync ==
    /\ call = "do_sync"
    /\ capacity = 4
    /\ CountOut(mem, capacity, s.max_deviation) = 2
    /\ OutOfSync(deviation, s.max_deviation)
    /\ ret = 0

\* C4: the history is a strict FIFO ring: once `capacity` deviations have
\* been passed since the reset, the tail read by the next do_sync is the
\* oldest of them, and the window, read from the cursor on, holds the most
\* recent `capacity` deviations in the order they were passed.
FifoRing ==
    [][call' = "do_sync" =>
         /\ Len(recent) = capacity => tail_deviation' = Head(recent)
         /\ Len(recent') = capacity =>
                \A i \in 1..capacity :
                    mem'[(s'.deviation_history.cursor + i - 1) % capacity] = recent'[i]
      ]_vars

\* A call past the capacity-th has read back a sample passed earlier, which
\* differs from the one now being written.
EvictedAnEarlierSample ==
    /\ call = "do_sync"
    /\ capacity >= 2
    /\ Len(recent) = capacity
    /\ tail_deviation # 0
    /\ tail_deviation # deviation
    /\ tail_deviation # recent[1]

\* C5: after a run from a reset over a zeroed buffer, a reset with the same
\* buffer, capacity and threshold makes the instance return, call by call,
\* what a freshly reset instance over a zeroed buffer returns.
ResetIdempotentOutputs ==
    call = "do_sync" => ret = tret

\* C6: each do_sync call either returns 0 with the window in sync
\* (misses <= half_history_size) or returns a nonzero correction with the
\* window out of sync (misses > half_history_size).
TwoOutcomes ==
    call = "do_sync" =>
        \/ s.misses <= s.half_history_size /\ ret = 0
        \/ s.misses > s.half_history_size /\ ret # 0

\* C6 as amended: do_sync returns 0 when misses <= half_history_size; when
\* misses > half_history_size it returns out_of_sync_sum / misses truncated
\* toward zero, which is nonzero exactly when |out_of_sync_sum| >= misses.
TwoOutcomesAmended ==
    call = "do_sync" =>
        IF s.misses <= s.half_history_size
        THEN ret = 0
        ELSE /\ IsTruncatedQuotient(ret, s.out_of_sync_sum, s.misses)
             /\ ret # 0 <=> labs(s.out_of_sync_sum) >= s.misses

\* The window is out of sync and the out-of-range samples cancel.
OutOfSyncReturnsZero ==
    /\ call = "do_sync"
    /\ s.misses > s.half_history_size
    /\ ret = 0

\* C7: for every capacity >= 1, if exactly one window sample is out of range
\* do_sync returns 0.
SingleJitterNoCorrection ==
    (call = "do_sync" /\ CountOut(mem, capacity, s.max_deviation) = 1)
        => ret = 0

\* C7 as amended: for every capacity >= 2, if exactly one window sample is
\* out of range do_sync returns 0.
SingleJitterNoCorrectionFromTwo ==
    (call = "do_sync" /\ capacity >= 2
     /\ CountOut(mem, capacity, s.max_deviation) = 1)
        => ret = 0

\* The sample just passed is the only out-of-range one in a window of two.
SingleJitterInWindowOfTwo ==
    /\ call = "do_sync"
    /\ capacity = 2
    /\ OutOfSync(deviation, s.max_deviation)
    /\ CountOut(mem, capacity, s.max_deviation) = 1
    /\ ret = 0

\* C8: with resets at any point over the used buffer, 0 <= misses <= capacity
\* after every do_sync call.
MissesWithinCapacity ==
    call = "do_sync" => (0 <= s.misses /\ s.misses <= capacity)

\* C9: more_than_half_reset, from any prior state, sets half_history_size to
\* floor(capacity / 2), max_deviation to the given threshold, misses,
\* out_of_sync_sum and total_sum to 0 and the cursor to 0, returns 0, and
\* leaves the buffer's contents unchanged.
ResetEffect ==
    [][call' = "reset" =>
         /\ s'.deviation_history.capacity = reset_args'.history_size
         /\ s'.half_history_size * 2 <= reset_args'.history_size
         /\ reset_args'.history_size <= s'.half_history_size * 2 + 1
         /\ s'.max_deviation = reset_args'.allowed_deviation
         /\ s'.misses = 0
         /\ s'.out_of_sync_sum = 0
         /\ s'.total_sum = 0
         /\ s'.deviation_history.cursor = 0
         /\ ret' = 0
         /\ mem' = mem
      ]_vars

\* A reset has just been made over a buffer that holds out-of-range samples,
\* with the cursor of the prior run elsewhere.
ResetOverUsedBuffer ==
    /\ call = "reset"
    /\ CountOut(mem, capacity, s.max_deviation) >= 2
    /\ tail_deviation # 0
    /\ s.misses = 0

CapacityOne ==
    capacity = 1 =>
        /\ s.half_history_size = 0
        /\ s.misses = (IF labs(mem[0]) > s.max_deviation THEN 1 ELSE 0)
        /\ s.out_of_sync_sum = (IF labs(mem[0]) > s.max_deviation THEN mem[0] ELSE 0)
        /\ s.total_sum = mem[0]
        /\ call = "do_sync" =>
               ret = (IF labs(deviation) > s.max_deviation THEN deviation ELSE 0)

\* With capacity 1 an in-range sample has replaced an out-of-range one in
\* the single slot: the same slot is evicted and inserted.
CapacityOneEvictedAndInserted ==
    /\ call = "do_sync"
    /\ capacity = 1
    /\ labs(tail_deviation) > s.max_deviation
    /\ labs(deviation) <= s.max_deviation
    /\ deviation # 0
    /\ mem[0] = deviation
    /\ ret = 0

\* C13: the division out_of_sync_sum / misses is never executed with
\* misses = 0: whenever the guard misses > half_history_size holds,
\* misses >= 1.
DivisorNeverZero ==
    s.misses > s.half_history_size => s.misses >= 1

\* The division has just been executed with the smallest divisor, 1.
DividedByOne ==
    /\ call = "do_sync"
    /\ s.half_history_size = 0
    /\ s.misses = 1
    /\ ret = s.out_of_sync_sum
    /\ ret # 0

\* How many of the deviations passed last, counted back from the newest,
\* are out of range in an unbroken run (at most Len(q)).
RECURSIVE TrailingOut(_, _)
TrailingOut(q, max) ==
    IF q = << >> \/ labs(q[Len(q)]) <= max THEN 0
    ELSE 1 + TrailingOut(SubSeq(q, 1, Len(q) - 1), max)

\* The same for an unbroken run of in-range deviations.
RECURSIVE TrailingIn(_, _)
TrailingIn(q, max) ==
    IF q = << >> \/ labs(q[Len(q)]) > max THEN 0
    ELSE 1 + TrailingIn(SubSeq(q, 1, Len(q) - 1), max)

\* C14: from any state reached after a reset over a zeroed buffer,
\* floor(capacity/2) + 1 consecutive do_sync calls with out-of-range
\* deviations leave misses > half_history_size, the last of them returning
\* the correction, and capacity - floor(capacity/2) consecutive calls with
\* in-range deviations leave misses <= half_history_size, the last of them
\* returning 0.
SustainedDriftAndRecovery ==
    call = "do_sync" =>
        /\ TrailingOut(recent, s.max_deviation) >= capacity \div 2 + 1 =>
               /\ s.misses > s.half_history_size
               /\ IsTruncatedQuotient(ret, s.out_of_sync_sum, s.misses)
        /\ TrailingIn(recent, s.max_deviation) >= capacity - capacity \div 2 =>
               /\ s.misses <= s.half_history_size
               /\ ret = 0

\* In a window of four, exactly three out-of-range deviations in a row,
\* after an in-range one, have brought the correction.
DriftJustSustained ==
    /\ call = "do_sync"
    /\ capacity = 4
    /\ Len(recent) = 4
    /\ TrailingOut(recent, s.max_deviation) = 3
    /\ s.misses = 3
    /\ ret # 0

\* C15: two instances reset with the same capacity and threshold over zeroed
\* buffers, one fed d1..dn and the other -d1..-dn, return at every call
\* values that are exact negations of each other.
SignSymmetry ==
    call = "do_sync" => tret = -ret

\* A negative correction whose division is inexact, where truncation and
\* floor differ, mirrored by the second instance.
NegatedInexactCorrection ==
    /\ call = "do_sync"
    /\ ret < 0
    /\ labs(s.out_of_sync_sum) % s.misses # 0
    /\ tret = -ret
    /\ t.out_of_sync_sum = -s.out_of_sync_sum

\* The out-of-range samples now in the window.
OutOfRangeSamples ==
    {mem[i] : i \in {j \in 0..(capacity - 1) : labs(mem[j]) > s.max_deviation}}

\* C16: whenever do_sync returns the correction (after a reset over a zeroed
\* buffer), the value lies between the minimum and the maximum of the
\* out-of-range samples in the window, inclusive, and never exceeds in
\* magnitude the largest deviation in the window.
CorrectionWithinSamples ==
    (call = "do_sync" /\ s.misses > s.half_history_size) =>
        /\ \E x \in OutOfRangeSamples : x <= ret
        /\ \E y \in OutOfRangeSamples : ret <= y
        /\ \E i \in 0..(capacity - 1) : labs(ret) <= labs(mem[i])

\* A correction strictly inside the range of out-of-range samples of both
\* signs, equal to none of them.
CorrectionStrictlyInside ==
    /\ call = "do_sync"
    /\ s.misses > s.half_history_size
    /\ ret \notin OutOfRangeSamples
    /\ \E x \in OutOfRangeSamples : x < 0
    /\ \E y \in OutOfRangeSamples : y > 0
    /\ ret # 0

\* No thread is inside a call.
Quiescent == \A p \in Threads : threads[p].pc = "idle"

\* C12: when two do_sync calls on one instance interleave their reads and
\* writes, a state is reachable in which misses, out_of_sync_sum or
\* total_sum differs from the recomputation over the buffer; as long as no
\* call begins while another is in flight, the aggregates match the
\* recomputation whenever no call is in flight, and no call faults.
SerializedCallsKeepAggregates ==
    ~overlapped =>
        /\ \A p \in Threads : threads[p].pc # "fault"
        /\ Quiescent =>
               /\ s.misses = CountOut(mem, capacity, s.max_deviation)
               /\ s.out_of_sync_sum = SumOut(mem, capacity, s.max_deviation)
               /\ s.total_sum = SumAll(mem, capacity)

\* Two calls have overlapped and returned, and an aggregate no longer
\* matches the buffer.
RaceCorruptsAggregates ==
    /\ Quiescent
    /\ overlapped
    /\ calls = 2
    /\ \/ s.misses # CountOut(mem, capacity, s.max_deviation)
       \/ s.out_of_sync_sum # SumOut(mem, capacity, s.max_deviation)
       \/ s.total_sum # SumAll(mem, capacity)

====
